---- MODULE Spec2Model ----
(***************************************************************************)
(* Model of src/app.py: the rolling baseline (calculate_moving_average),   *)
(* the 2-sigma anomaly flags (detect_anomalies), the per-(city, season)    *)
(* aggregate (seasonal_statistics) and one run of main() with its live     *)
(* reading evaluation.                                                     *)
(*                                                                         *)
(* Numbers.  Temperatures are integers.  A mean is kept as the exact       *)
(* fraction num/den; a standard deviation is kept as the exact fraction    *)
(* num/den of its SQUARE (the sample variance), so that every comparison   *)
(* of the code (x > mean + 2*std, lower <= x <= upper) is decided exactly  *)
(* by cross-multiplication.  NaN is the cell with def = FALSE; as in       *)
(* pandas/IEEE every ordering comparison with a NaN operand is False.      *)
(*                                                                         *)
(* Objects.  DataFrames live in heap (a sequence of frames, the object id  *)
(* is the index); data and city_data hold object ids, so that in-place     *)
(* column assignment is visible through every alias.  A frame is a         *)
(* function from column names to equally long sequences of cells.          *)
(***************************************************************************)
EXTENDS Integers, Sequences, FiniteSets, TLC

VARIABLES
    pc,            \* position of the run inside main() (or of the direct call)
    heap,          \* the DataFrame objects created so far
    data,          \* main: id of the loaded frame (0 = not loaded)
    city,          \* main: value of the city selectbox
    city_data,     \* id of the frame handed to calculate_moving_average
    window,        \* the window argument of calculate_moving_average
    season_stats,  \* main: rows of the seasonal_statistics frame
    anomalies,     \* main: positions of city_data plotted as anomalies
    api_key,       \* main: value of the API key text input
    current_temp,  \* main: what fetch_temperature_sync returned
    season,        \* main: season used for the live evaluation
    stats,         \* main: rows of season_stats selected on line 108
    range_operand, \* main: kind of value the line-115 comparison ran on
    out,           \* main: st.write messages of the monitoring section
    error          \* exception that ended the run ("none" if none)

vars == <<pc, heap, data, city, city_data, window, season_stats, anomalies,
          api_key, current_temp, season, stats, range_operand, out, error>>

-----------------------------------------------------------------------------
(* Bounds of the checked instances *)

MaxLen == 7

MaxWindow == 6

MaxRows == 3

(* Program constants *)

DefaultWindow == 30

AnomalySigma == 2

RangeSigma == 2

-----------------------------------------------------------------------------
(* Cells *)

NaN == [def |-> FALSE, num |-> 0, den |-> 1]

\* the number n/d (d > 0)
Rat(n, d) == [def |-> TRUE, num |-> n, den |-> d]

\* the number sqrt(n/d) (n >= 0, d > 0)
Root(n, d) == [def |-> TRUE, num |-> n, den |-> d]

RECURSIVE Sum(_, _, _)
Sum(s, lo, hi) == IF lo > hi THEN 0 ELSE s[hi] + Sum(s, lo, hi - 1)

RECURSIVE SumSq(_, _, _)
SumSq(s, lo, hi) == IF lo > hi THEN 0 ELSE s[hi] * s[hi] + SumSq(s, lo, hi - 1)

\* arithmetic mean of s[lo..hi]
MeanOf(s, lo, hi) == Rat(Sum(s, lo, hi), hi - lo + 1)

\* sample standard deviation (ddof = 1) of s[lo..hi]: NaN for one observation
StdOf(s, lo, hi) ==
    LET n == hi - lo + 1
    IN  IF n - 1 <= 0
        THEN NaN
        ELSE Root(n * SumSq(s, lo, hi) - Sum(s, lo, hi) * Sum(s, lo, hi),
                  n * (n - 1))

\* x > m + k*s, for numbers x, m and a standard deviation s; False on NaN
Above(x, m, k, s) ==
    /\ x.def /\ m.def /\ s.def
    /\ LET a == x.num * m.den - m.num * x.den
           b == x.den * m.den
       IN  /\ a > 0
           /\ a * a * s.den > k * k * s.num * b * b

\* x < m - k*s; False on NaN
Below(x, m, k, s) ==
    /\ x.def /\ m.def /\ s.def
    /\ LET a == m.num * x.den - x.num * m.den
           b == x.den * m.den
       IN  /\ a > 0
           /\ a * a * s.den > k * k * s.num * b * b

\* m - k*s <= x; False on NaN
LowerLe(m, k, s, x) ==
    /\ x.def /\ m.def /\ s.def
    /\ ~Below(x, m, k, s)

\* x <= m + k*s; False on NaN
LeUpper(x, m, k, s) ==
    /\ x.def /\ m.def /\ s.def
    /\ ~Above(x, m, k, s)

-----------------------------------------------------------------------------
(* Frames *)

NRows(f) == Len(f["temperature"])

\* f[name] = column: a new column is added, an existing one overwritten
SetColumn(f, name, column) ==
    [c \in DOMAIN f \cup {name} |-> IF c = name THEN column ELSE f[c]]

\* variant: the window ends one position before the current one
RollingMeanPrevious(temps, w) ==
    [i \in 1..Len(temps) |->
        IF i <= w THEN NaN ELSE MeanOf(temps, i - w, i - 1)]

\* Series.rolling(window=w).mean(): min_periods = w, trailing window
RollingMean(temps, w) ==
    [i \in 1..Len(temps) |->
        IF i < w THEN NaN ELSE MeanOf(temps, i - w + 1, i)]

\* variant: min_periods = 1, the window grows until it is full
RollingStdMinPeriods1(temps, w) ==
    [i \in 1..Len(temps) |->
        StdOf(temps, IF i - w + 1 < 1 THEN 1 ELSE i - w + 1, i)]

\* Series.rolling(window=w).std(): min_periods = w, ddof = 1
RollingStd(temps, w) ==
    [i \in 1..Len(temps) |->
        IF i < w THEN NaN ELSE StdOf(temps, i - w + 1, i)]

\* the frame after calculate_moving_average(f, w) has run on it
calculate_moving_average(f, w) ==
    LET f1 == SetColumn(f, "moving_avg", RollingMean(f["temperature"], w))
    IN  SetColumn(f1, "moving_std", RollingStd(f1["temperature"], w))

\* variant: inside the band written with negated inclusive comparisons,
\* which turns every NaN baseline into a flag
IsAnomalyNegated(t, avg, std) ==
    \/ ~LeUpper(Rat(t, 1), avg, AnomalySigma, std)
    \/ ~LowerLe(avg, AnomalySigma, std, Rat(t, 1))

\* variant: >= and <= in place of > and <, the band's edges are flagged
IsAnomalyInclusive(t, avg, std) ==
    /\ avg.def /\ std.def
    /\ LET a == t * avg.den - avg.num
       IN  a * a * std.den
               >= AnomalySigma * AnomalySigma * std.num * avg.den * avg.den

\* one element of the boolean Series built on lines 19-20
IsAnomaly(t, avg, std) ==
    \/ Above(Rat(t, 1), avg, AnomalySigma, std)
    \/ Below(Rat(t, 1), avg, AnomalySigma, std)

\* the frame after detect_anomalies(f) has run on it
detect_anomalies(f) ==
    SetColumn(f, "anomaly",
        [i \in 1..NRows(f) |->
            IsAnomaly(f["temperature"][i], f["moving_avg"][i], f["moving_std"][i])])

-----------------------------------------------------------------------------
(* Direct calls: calculate_moving_average(frame, w); detect_anomalies(frame) *)

PureTemps == {10, 30}

SeriesInputs == UNION {[1..n -> PureTemps] : n \in 0..MaxLen}

InitPure ==
    /\ pc = "sliced"
    /\ \E s \in SeriesInputs : heap = <<[temperature |-> s]>>
    /\ window \in 1..MaxWindow
    /\ city_data = 1
    /\ data = 0
    /\ city = "none"
    /\ season_stats = {}
    /\ anomalies = {}
    /\ api_key = ""
    /\ current_temp = [kind |-> "unset", value |-> NaN]
    /\ season = "none"
    /\ stats = {}
    /\ range_operand = "nothing"
    /\ out = <<>>
    /\ error = "none"

\* city_data = calculate_moving_average(city_data[, window]): the callee
\* assigns two columns on the object it was given and returns that object
CalcMovingAverage ==
    /\ pc = "sliced"
    /\ heap' = [heap EXCEPT ![city_data] = calculate_moving_average(@, window)]
    /\ pc' = "averaged"
    /\ UNCHANGED <<data, city, city_data, window, season_stats, anomalies,
                   api_key, current_temp, season, stats, range_operand, out, error>>

\* city_data = detect_anomalies(city_data)
DetectAnomalies ==
    /\ pc = "averaged"
    /\ heap' = [heap EXCEPT ![city_data] = detect_anomalies(@)]
    /\ pc' = "detected"
    /\ UNCHANGED <<data, city, city_data, window, season_stats, anomalies,
                   api_key, current_temp, season, stats, range_operand, out, error>>

NextPure == CalcMovingAverage \/ DetectAnomalies

SpecPure == InitPure /\ [][NextPure]_vars

-----------------------------------------------------------------------------
(* seasonal_statistics and the helpers of main() *)

Cities == {"Berlin", "Cairo"}

Seasons == {"winter", "summer"}

\* a season cell read_csv could not fill (an empty field) is NaN
NoSeason == "NaN"

MainTemps == {12, 15, 18}

\* what a row of an uploaded CSV file can hold besides its timestamp
RowBodies ==
    [city : Cities, season : Seasons, temperature : MainTemps]
        \cup [city : Cities, season : {NoSeason}, temperature : {15}]

\* the file with row bodies b, timestamps ascending or descending down the file
MakeFile(b, asc) ==
    [i \in 1..Len(b) |->
        [city |-> b[i].city,
         timestamp |-> IF asc THEN i ELSE Len(b) + 1 - i,
         season |-> b[i].season,
         temperature |-> b[i].temperature]]

\* readings the weather service can report, as fractions
Readings == {Rat(9, 1), Rat(15, 1), Rat(21, 1), Rat(2101, 100)}

Responses ==
    {[status |-> 200, temp |-> r] : r \in Readings}
        \cup {[status |-> 401, temp |-> NaN], [status |-> 404, temp |-> NaN]}

\* pd.read_csv(file, parse_dates=['timestamp'])
load_data(file) ==
    [c \in {"city", "timestamp", "season", "temperature"} |->
        [i \in 1..Len(file) |-> file[i][c]]]

\* data['city'].unique()
UniqueCities(f) == {f["city"][i] : i \in 1..NRows(f)}

RECURSIVE Positions(_, _, _)
\* the positions i <= n of f whose city is c, in order
Positions(f, c, n) ==
    IF n = 0 THEN <<>>
    ELSE IF f["city"][n] = c
         THEN Append(Positions(f, c, n - 1), n)
         ELSE Positions(f, c, n - 1)

\* data[data['city'] == city]: a new frame holding the matching rows
SliceCity(f, c) ==
    LET idx == Positions(f, c, NRows(f))
    IN  [col \in DOMAIN f |-> [k \in 1..Len(idx) |-> f[col][idx[k]]]]

RECURSIVE GroupTemps(_, _, _, _)
\* temperatures of the rows i <= n of f in group (c, s), in order
GroupTemps(f, c, s, n) ==
    IF n = 0 THEN <<>>
    ELSE IF f["city"][n] = c /\ f["season"][n] = s
         THEN Append(GroupTemps(f, c, s, n - 1), f["temperature"][n])
         ELSE GroupTemps(f, c, s, n - 1)

\* the group keys of groupby(['city', 'season']): rows with a NaN key are dropped
GroupKeys(f) ==
    {<<f["city"][i], f["season"][i]>> :
        i \in {j \in 1..NRows(f) : f["season"][j] # NoSeason}}

\* data.groupby(['city','season'])['temperature'].agg(['mean','std']).reset_index()
seasonal_statistics(f) ==
    { LET g == GroupTemps(f, k[1], k[2], NRows(f))
      IN  [city |-> k[1], season |-> k[2],
           mean |-> MeanOf(g, 1, Len(g)), std |-> StdOf(g, 1, Len(g))]
      : k \in GroupKeys(f) }

\* variant: the aggregate is taken over the selected city's slice
MainSeasonStatsOfSlice(full, slice) == seasonal_statistics(slice)

\* season_stats = seasonal_statistics(data)
MainSeasonStats(full, slice) == seasonal_statistics(full)

\* what fetch_temperature_sync returns for a response
fetch_temperature_sync(response) ==
    IF response.status = 200
    THEN [kind |-> "number", value |-> response.temp]
    ELSE IF response.status = 401
         THEN [kind |-> "dict", value |-> NaN]
         ELSE [kind |-> "None", value |-> NaN]

\* season_stats[(season_stats['city'] == city) & (season_stats['season'] == season)]
SelectStats(rows, c, s) ==
    {r \in rows : r.city = c /\ s # NoSeason /\ r.season = s}

\* variant: both ends of the range exclusive
InRangeExclusive(x, mean_temp, std_temp) ==
    /\ x.def /\ mean_temp.def /\ std_temp.def
    /\ LET a == x.num * mean_temp.den - mean_temp.num * x.den
           b == x.den * mean_temp.den
       IN  a * a * std_temp.den < RangeSigma * RangeSigma * std_temp.num * b * b

\* lower_bound <= current_temp <= upper_bound, bounds mean -+ 2*std
InRange(x, mean_temp, std_temp) ==
    /\ LowerLe(mean_temp, RangeSigma, std_temp, x)
    /\ LeUpper(x, mean_temp, RangeSigma, std_temp)

-----------------------------------------------------------------------------
(* One run of main() *)

Init ==
    /\ pc = "start"
    /\ heap = <<>>
    /\ data = 0
    /\ city = "none"
    /\ city_data = 0
    /\ window = DefaultWindow
    /\ season_stats = {}
    /\ anomalies = {}
    /\ api_key = ""
    /\ current_temp = [kind |-> "unset", value |-> NaN]
    /\ season = "none"
    /\ stats = {}
    /\ range_operand = "nothing"
    /\ out = <<>>
    /\ error = "none"

\* the uploader holds no file: the body of main is skipped
NoFile ==
    /\ pc = "start"
    /\ pc' = "done"
    /\ UNCHANGED <<heap, data, city, city_data, window, season_stats, anomalies,
                   api_key, current_temp, season, stats, range_operand, out, error>>

\* data = load_data(file)
UploadFile ==
    /\ pc = "start"
    /\ \E n \in 1..MaxRows, asc \in BOOLEAN :
          \E b \in [1..n -> RowBodies] : heap' = <<load_data(MakeFile(b, asc))>>
    /\ data' = 1
    /\ pc' = "loaded"
    /\ UNCHANGED <<city, city_data, window, season_stats, anomalies,
                   api_key, current_temp, season, stats, range_operand, out, error>>

\* city = st.selectbox(...); city_data = data[data['city'] == city]
SelectCity ==
    /\ pc = "loaded"
    /\ \E c \in UniqueCities(heap[data]) :
          /\ city' = c
          /\ heap' = Append(heap, SliceCity(heap[data], c))
    /\ city_data' = Len(heap) + 1
    /\ pc' = "sliced"
    /\ UNCHANGED <<data, window, season_stats, anomalies,
                   api_key, current_temp, season, stats, range_operand, out, error>>

\* season_stats = seasonal_statistics(data); st.write(...)
SeasonalStatistics ==
    /\ pc = "detected"
    /\ season_stats' = MainSeasonStats(heap[data], heap[city_data])
    /\ pc' = "aggregated"
    /\ UNCHANGED <<heap, data, city, city_data, window, anomalies,
                   api_key, current_temp, season, stats, range_operand, out, error>>

\* the plot: anomalies = city_data[city_data['anomaly']]
Plot ==
    /\ pc = "aggregated"
    /\ anomalies' = {i \in 1..NRows(heap[city_data]) : heap[city_data]["anomaly"][i]}
    /\ pc' = "plotted"
    /\ UNCHANGED <<heap, data, city, city_data, window, season_stats,
                   api_key, current_temp, season, stats, range_operand, out, error>>

\* api_key = st.text_input(...); if api_key:
EnterApiKey ==
    /\ pc = "plotted"
    /\ \E k \in {"", "key"} :
          /\ api_key' = k
          /\ pc' = IF k = "" THEN "done" ELSE "fetching"
    /\ UNCHANGED <<heap, data, city, city_data, window, season_stats, anomalies,
                   current_temp, season, stats, range_operand, out, error>>

\* current_temp = fetch_temperature_sync(city, api_key)
Fetch ==
    /\ pc = "fetching"
    /\ \E response \in Responses : current_temp' = fetch_temperature_sync(response)
    /\ pc' = "fetched"
    /\ UNCHANGED <<heap, data, city, city_data, window, season_stats, anomalies,
                   api_key, season, stats, range_operand, out, error>>

\* if current_temp is not None: st.write("Current Temperature ...")
\* else: st.write("Failed to fetch current temperature. ...")
ReportFetch ==
    /\ pc = "fetched"
    /\ IF current_temp.kind # "None"
       THEN /\ out' = Append(out, "current")
            /\ pc' = "lookup"
       ELSE /\ out' = Append(out, "failed")
            /\ pc' = "done"
    /\ UNCHANGED <<heap, data, city, city_data, window, season_stats, anomalies,
                   api_key, current_temp, season, stats, range_operand, error>>

\* season = city_data['season'].iloc[0]; stats = season_stats[...];
\* mean_temp = stats['mean'].values[0]; std_temp = stats['std'].values[0]
LookupStats ==
    /\ pc = "lookup"
    /\ season' = heap[city_data]["season"][1]
    /\ stats' = SelectStats(season_stats, city, season')
    /\ IF stats' = {}
       THEN /\ error' = "IndexError"
            /\ pc' = "crashed"
       ELSE /\ error' = error
            /\ pc' = "assess"
    /\ UNCHANGED <<heap, data, city, city_data, window, season_stats, anomalies,
                   api_key, current_temp, range_operand, out>>

\* the bounds and the if on line 115
AssessRange ==
    /\ pc = "assess"
    /\ range_operand' = current_temp.kind
    /\ IF current_temp.kind = "number"
       THEN LET st == CHOOSE r \in stats : TRUE
            IN  /\ out' = Append(out,
                        IF InRange(current_temp.value, st.mean, st.std)
                        THEN "within" ELSE "outside")
                /\ error' = error
                /\ pc' = "done"
       ELSE /\ out' = out
            /\ error' = "TypeError"
            /\ pc' = "crashed"
    /\ UNCHANGED <<heap, data, city, city_data, window, season_stats, anomalies,
                   api_key, current_temp, season, stats>>

Next ==
    \/ NoFile
    \/ UploadFile
    \/ SelectCity
    \/ CalcMovingAverage
    \/ DetectAnomalies
    \/ SeasonalStatistics
    \/ Plot
    \/ EnterApiKey
    \/ Fetch
    \/ ReportFetch
    \/ LookupStats
    \/ AssessRange

Spec == Init /\ [][Next]_vars

-----------------------------------------------------------------------------
(* Properties of main() (checked under Spec) *)

Loaded == heap[data]

\* rows of the loaded dataset in group (c, s)
GroupRows(c, s) ==
    {i \in 1..NRows(Loaded) : Loaded["city"][i] = c /\ Loaded["season"][i] = s}

RECURSIVE TempSum(_)
TempSum(rows) ==
    IF rows = {} THEN 0
    ELSE LET i == CHOOSE j \in rows : TRUE
         IN  Loaded["temperature"][i] + TempSum(rows \ {i})

\* the (city, season) pairs present in the loaded dataset
PairsPresent ==
    {<<Loaded["city"][i], Loaded["season"][i]>> :
        i \in {j \in 1..NRows(Loaded) : Loaded["season"][j] \in Seasons}}

Said(m) == \E i \in 1..Len(out) : out[i] = m

\* the statistics row the assessment read
StatRow == CHOOSE r \in stats : TRUE

\* C2 as claimed: when the fetch returned something that is not a number (the
\* {code, message} record or None), the comparison of line 115 is not run on
\* it, no within/outside message is produced, and the run goes on to the
\* failure message instead of ending in the comparison's exception.
C2_AsClaimed ==
    current_temp.kind \in {"dict", "None"} =>
        /\ range_operand = "nothing"
        /\ ~Said("within") /\ ~Said("outside")
        /\ error # "TypeError"
        /\ pc = "done" => Said("failed")

\* C5: the live evaluation reports "within" exactly when
\* mean - 2*std <= reading <= mean + 2*std, both ends inclusive: with mean 15
\* and std 3 a reading of 21 is within and 21.01 is outside, and a reading
\* equal to the mean is within whenever the std is a number.
C5_InclusiveRange ==
    (pc = "done" /\ range_operand = "number") =>
        LET x == current_temp.value
            m == StatRow.mean
            sd == StatRow.std
            a == x.num * m.den - m.num * x.den
            b == x.den * m.den
        IN  /\ Said("within") # Said("outside")
            /\ sd.def => (Said("within") <=> a * a * sd.den <= 4 * sd.num * b * b)
            /\ ~sd.def => Said("outside")
            /\ (sd.def /\ m.num = 15 * m.den /\ sd.num = 9 * sd.den) =>
                  /\ x.num = 21 * x.den => Said("within")
                  /\ 100 * x.num = 2101 * x.den => Said("outside")
            /\ (sd.def /\ a = 0) => Said("within")

\* C5 witness: mean 15, std 3, reading 21 on the upper bound, reported within.
C5_Witness ==
    /\ pc = "done"
    /\ range_operand = "number"
    /\ StatRow.mean.num = 15 * StatRow.mean.den
    /\ StatRow.std.def /\ StatRow.std.num = 9 * StatRow.std.den
    /\ current_temp.value.num = 21 * current_temp.value.den
    /\ Said("within")

\* the lookup of lines 107-110 has run and found no row for (city, season)
LookupMissed == season # "none" /\ stats = {}

\* C6 as claimed: when season_stats has no entry for the (city, season) asked
\* for, the evaluation fails with the typed error MissingSeasonalStat and
\* gives no in-range/out-of-range verdict.
C6_AsClaimed ==
    LookupMissed =>
        /\ error = "MissingSeasonalStat"
        /\ ~Said("within") /\ ~Said("outside")

\* C8: main aggregates the whole loaded dataset, not the selected city's
\* slice: the keys of season_stats are exactly the (city, season) pairs present
\* in the dataset, one row per pair, and each row's mean is the arithmetic mean
\* of that group's temperatures.
C8_WholeDatasetAggregate ==
    pc \in {"aggregated", "plotted", "fetching", "fetched", "lookup", "assess"} =>
        /\ {<<r.city, r.season>> : r \in season_stats} = PairsPresent
        /\ Cardinality(season_stats) = Cardinality(PairsPresent)
        /\ \A r \in season_stats :
              /\ r.mean.def
              /\ r.mean.num * Cardinality(GroupRows(r.city, r.season))
                    = TempSum(GroupRows(r.city, r.season)) * r.mean.den

\* C8 witness: an aggregate over a dataset with two cities, holding a row of
\* the city that was not selected and a group of several readings.
C8_Witness ==
    /\ pc = "aggregated"
    /\ \E r \in season_stats : r.city # city
    /\ \E r \in season_stats : Cardinality(GroupRows(r.city, r.season)) >= 2

\* positions of the selected city's records in the loaded dataset
CityRows == {i \in 1..NRows(Loaded) : Loaded["city"][i] = city}

\* the most recent record of the selected city
LatestRow ==
    CHOOSE i \in CityRows :
        \A j \in CityRows : Loaded["timestamp"][j] <= Loaded["timestamp"][i]

\* C10 as claimed: when the selected city's records (each carrying a season)
\* span more than one season, the season used for the live evaluation is the season of the
\* city's latest-timestamp record.
C10_AsClaimed ==
    (/\ season # "none"
     /\ \A i \in CityRows : Loaded["season"][i] \in Seasons
     /\ Cardinality({Loaded["season"][i] : i \in CityRows}) > 1) =>
        season = Loaded["season"][LatestRow]

-----------------------------------------------------------------------------
(* Properties of the direct calls (checked under SpecPure) *)

\* the frame the calls were made on
Frame == heap[city_data]

Temperature(i) == Frame["temperature"][i]
MovingAvg(i) == Frame["moving_avg"][i]
MovingStd(i) == Frame["moving_std"][i]
Anomaly(i) == Frame["anomaly"][i]

\* C1: after calculate_moving_average and detect_anomalies, a position whose
\* rolling mean or rolling standard deviation is undefined (every one of the
\* first window-1 positions among them) has anomaly = False.
C1_UndefinedBaselineNotAnomalous ==
    pc = "detected" =>
        \A i \in 1..NRows(Frame) :
            (i < window \/ ~MovingAvg(i).def \/ ~MovingStd(i).def)
                => Anomaly(i) = FALSE

\* C1 witness: a detected frame with an undefined early position and, later,
\* a flagged one.
C1_Witness ==
    /\ pc = "detected"
    /\ \E i, j \in 1..NRows(Frame) :
          /\ i < window /\ ~MovingAvg(i).def /\ ~MovingStd(i).def
          /\ Anomaly(i) = FALSE
          /\ Anomaly(j) = TRUE

\* squared distance of the temperature from the rolling mean against the
\* squared band width (2*std)^2, both over the common denominator
Dev2(i) ==
    LET d == Temperature(i) * MovingAvg(i).den - MovingAvg(i).num
    IN  d * d * MovingStd(i).den

Band2(i) ==
    4 * MovingStd(i).num * MovingAvg(i).den * MovingAvg(i).den

\* C3: where the rolling mean and standard deviation are defined, anomaly is
\* True exactly when the temperature lies strictly outside mean +- 2*std; a
\* temperature exactly on mean + 2*std or mean - 2*std is not anomalous.
C3_StrictTwoSigma ==
    pc = "detected" =>
        \A i \in 1..NRows(Frame) :
            (MovingAvg(i).def /\ MovingStd(i).def) =>
                /\ Anomaly(i) = (Dev2(i) > Band2(i))
                /\ (Dev2(i) = Band2(i)) => Anomaly(i) = FALSE

\* C3 witness: one frame with a flagged position and a position exactly on
\* the band's edge that is not flagged.
C3_Witness ==
    /\ pc = "detected"
    /\ \E i, j \in 1..NRows(Frame) :
          /\ MovingAvg(i).def /\ MovingStd(i).def /\ Anomaly(i) = TRUE
          /\ MovingAvg(j).def /\ MovingStd(j).def
          /\ Dev2(j) = Band2(j) /\ Anomaly(j) = FALSE

\* C4 as claimed: the result has one baseline point per input row, and exactly
\* the positions before window-1 (0-based) have an undefined mean and an
\* undefined standard deviation, for every window >= 1.
C4_AsClaimed ==
    pc = "averaged" =>
        /\ Len(Frame["moving_avg"]) = NRows(Frame)
        /\ Len(Frame["moving_std"]) = NRows(Frame)
        /\ \A i \in 1..NRows(Frame) :
              /\ MovingAvg(i).def = (i >= window)
              /\ MovingStd(i).def = (i >= window)

\* C4 amended: one baseline point per input row, aligned with it; the mean is
\* undefined exactly before position window-1 (0-based) and is the mean of the
\* trailing window elsewhere; the standard deviation is undefined exactly there
\* when window >= 2, and at every position when window = 1.
C4_BaselineShape ==
    pc = "averaged" =>
        /\ Len(Frame["moving_avg"]) = NRows(Frame)
        /\ Len(Frame["moving_std"]) = NRows(Frame)
        /\ \A i \in 1..NRows(Frame) :
              /\ MovingAvg(i).def = (i >= window)
              /\ MovingAvg(i).def =>
                    MovingAvg(i).num * window
                        = Sum(Frame["temperature"], i - window + 1, i) * MovingAvg(i).den
              /\ MovingStd(i).def = (i >= window /\ window >= 2)

\* C4 witness: window = 1 on a non-empty series (every mean defined, every
\* standard deviation undefined).
C4_Witness ==
    /\ pc = "averaged"
    /\ window = 1
    /\ NRows(Frame) >= 2
    /\ \A i \in 1..NRows(Frame) : MovingAvg(i).def /\ ~MovingStd(i).def

Scenario7 == <<10, 10, 10, 10, 10, 30>>

\* C7 as claimed: for [10,10,10,10,10,30] and window 5 the point at index 5
\* (0-based) has moving mean 10, moving std 0 and is flagged.
C7_AsClaimed ==
    (pc = "detected" /\ Frame["temperature"] = Scenario7 /\ window = 5) =>
        /\ MovingAvg(6).def /\ MovingAvg(6).num = 10 * MovingAvg(6).den
        /\ MovingStd(6).def /\ MovingStd(6).num = 0
        /\ Anomaly(6) = TRUE

\* C7 amended: for [10,10,10,10,10,30] and window 5 the point at index 5
\* (0-based) has moving mean 14 and moving std sqrt(80) (the window
\* [10,10,10,10,30] holds the point itself), and is not flagged.
C7_ScenarioValues ==
    (pc = "detected" /\ Frame["temperature"] = Scenario7 /\ window = 5) =>
        /\ MovingAvg(6).def /\ MovingAvg(6).num = 14 * MovingAvg(6).den
        /\ MovingStd(6).def /\ MovingStd(6).num = 80 * MovingStd(6).den
        /\ Anomaly(6) = FALSE

\* C7 witness: the scenario has been run.
C7_Witness ==
    /\ pc = "detected"
    /\ Frame["temperature"] = Scenario7
    /\ window = 5
    /\ Anomaly(6) = FALSE

\* C9 as claimed: calculate_moving_average leaves the object it was given
\* unchanged (no column added or overwritten).
C9_AsClaimed ==
    [][(pc = "sliced" /\ pc' = "averaged") => heap'[city_data] = heap[city_data]]_vars

====
